---------------------------- MODULE Spec2Model ----------------------------
(***************************************************************************)
(* A model of the Wordle helper (src/wordle.py): the knowledge state kept  *)
(* by class Wordle, the round processor (_process_input and                *)
(* _update_word_information), the dictionary filter of Wordle.play, and    *)
(* the suggestion engine suggest_words_with_max_information.               *)
(*                                                                         *)
(* Words and feedback strings are sequences of one-character strings.      *)
(* Positions are 1-based here and 0-based in the source.                   *)
(***************************************************************************)
EXTENDS Integers, Sequences, FiniteSets, TLC

(***************************************************************************)
(* Bounds of the model.  The source fixes the word length at 5 and the     *)
(* alphabet at the 26 lower-case letters; the model keeps the shape        *)
(* (more letters in the alphabet than positions in a word) at a size TLC   *)
(* can explore exhaustively.                                               *)
(***************************************************************************)
WordLen == 3

\* the rounds of a session the model follows
MaxRounds == 2

\* the longest candidate list handed to the suggestion engine
MaxCandidates == 2

\* the interpreter's recursion limit, in frames of the suggestion engine
MaxDepth == 6

Positions == 1..WordLen

\* string.ascii_lowercase, scaled: the keys of the yellow-letter map
ascii_lowercase == {"a", "b", "c", "d"}

\* the letters the played words, the answer and the session's dictionary use
InputLetters == {"a", "b"}

Words == [Positions -> InputLetters]

\* the "unknown" marker of the letter lists
Unknown == "?"

Prototypes == [Positions -> InputLetters \cup {Unknown}]

(***************************************************************************)
(* str.upper and str.lower on the characters the model uses.               *)
(***************************************************************************)
Upper(ch) ==
    CASE ch = "x" -> "X" [] ch = "y" -> "Y" [] ch = "g" -> "G"
      [] ch = "q" -> "Q" [] ch = "a" -> "A" [] ch = "b" -> "B"
      [] ch = "c" -> "C" [] ch = "d" -> "D" [] ch = "z" -> "Z"
      [] OTHER -> ch

Lower(ch) ==
    CASE ch = "X" -> "x" [] ch = "Y" -> "y" [] ch = "G" -> "g"
      [] ch = "Q" -> "q" [] ch = "A" -> "a" [] ch = "B" -> "b"
      [] ch = "C" -> "c" [] ch = "D" -> "d" [] ch = "Z" -> "z"
      [] OTHER -> ch

UpperStr(s) == [i \in DOMAIN s |-> Upper(s[i])]

LowerStr(s) == [i \in DOMAIN s |-> Lower(s[i])]

Min(m, n) == IF m <= n THEN m ELSE n

\* the letters occurring in a sequence
LettersOf(s) == {s[i] : i \in DOMAIN s}

(***************************************************************************)
(* The dictionary.  get_dictionary reads the five-letter words of a JSON   *)
(* file; remove_plurals drops the words the inflect library takes for      *)
(* plural nouns.  Here: every word over InputLetters, one of them plural.  *)
(***************************************************************************)
get_dictionary == Words

PluralNouns == {<<"b", "b", "a">>}

remove_plurals(word_list) == word_list \ PluralNouns

THE_DICTIONARY == remove_plurals(get_dictionary)

\* Wordle._found_words_threshold is 30 in the source; scaled with the dictionary
found_words_threshold == 3

(***************************************************************************)
(* The filter predicates.                                                  *)
(***************************************************************************)
\* a variant that asks for any one of the letters instead of all of them
all_letters_in_word_any(word, letters) ==
    \E letter \in letters : letter \in LettersOf(word)

all_letters_in_word(word, letters) ==
    \A letter \in letters : letter \in LettersOf(word)

\* a variant with the comparison inverted: a letter that matches is a mismatch
all_letters_in_word_positional_inverted(word, letters) ==
    LET n == Min(Len(word), Len(letters))
        mismatch == \E i \in 1..n : letters[i] # Unknown /\ letters[i] = word[i]
    IN  IF mismatch THEN "False"
        ELSE IF Len(word) # Len(letters) THEN "ValueError"
        ELSE "True"

\* zip(letters, word, strict=True): the pairs are compared in order; the first
\* mismatch returns False, and ValueError is raised only when one argument is
\* exhausted before the other without a mismatch before it.
all_letters_in_word_positional(word, letters) ==
    LET n == Min(Len(word), Len(letters))
        mismatch == \E i \in 1..n : letters[i] # Unknown /\ letters[i] # word[i]
    IN  IF mismatch THEN "False"
        ELSE IF Len(word) # Len(letters) THEN "ValueError"
        ELSE "True"

\* wordle_helper.py's allLettersInWordPositional: the same loop inside a try;
\* on ValueError it prints a message and calls exit(), which raises SystemExit
allLettersInWordPositional(letters, word) ==
    LET n == Min(Len(letters), Len(word))
        mismatch == \E i \in 1..n : letters[i] # Unknown /\ letters[i] # word[i]
    IN  IF mismatch THEN "False"
        ELSE IF Len(letters) # Len(word) THEN "SystemExit"
        ELSE "True"

\* a variant that looks at every position, confirmed or not
does_not_contain_anywhere(word, lettersNotInWord, knownCorrectPositions) ==
    ~ \E letter \in lettersNotInWord : letter \in LettersOf(word)

\* knownCorrectPositions is None or a sequence; <<>> stands for both falsy values.
does_not_contain(word, lettersNotInWord, knownCorrectPositions) ==
    LET kept == IF knownCorrectPositions # <<>>
                THEN {word[i] : i \in {j \in 1..Min(Len(word), Len(knownCorrectPositions)) :
                                            knownCorrectPositions[j] = Unknown}}
                ELSE LettersOf(word)
    IN  ~ \E letter \in lettersNotInWord : letter \in kept

yellow_letter_positions_to_set(ylp) ==
    {letter \in DOMAIN ylp : \E i \in DOMAIN ylp[letter] : ylp[letter][i]}

(***************************************************************************)
(* The knowledge state of a Wordle object, as a record, and its initial    *)
(* value (Wordle.__init__).                                                *)
(***************************************************************************)
WordleInit ==
    [ letters_not_in_word |-> {},
      green_letter_positions |-> [i \in Positions |-> Unknown],
      yellow_letter_positions |->
          [letter \in ascii_lowercase |-> [i \in Positions |-> FALSE]] ]

\* a variant without the upper-casing of the marks
info_has_invalid_chars_case_sensitive(info) ==
    \E i \in DOMAIN info : info[i] \notin {"X", "Y", "G"}

\* Wordle._info_has_invalid_chars
info_has_invalid_chars(info) ==
    \E i \in DOMAIN info : Upper(info[i]) \notin {"X", "Y", "G"}

\* Wordle._process_input: the tuple (letters_not_in_word, yellow list, green list)
process_input(word_played, info) ==
    LET n == Min(Len(word_played), Len(info))
    IN  [ letters_not_in_word |->
              {word_played[i] : i \in {j \in 1..n : Upper(info[j]) = "X"}},
          yellow_letter_positions |->
              [i \in Positions |->
                  IF i <= n /\ Upper(info[i]) = "Y" THEN word_played[i] ELSE Unknown],
          green_letter_positions |->
              [i \in Positions |->
                  IF i <= n /\ Upper(info[i]) = "G" THEN word_played[i] ELSE Unknown] ]

\* a variant that assigns the round's green list instead of merging it
update_word_information_replacing_green(self, delta) ==
    LET absent == self.letters_not_in_word \cup delta.letters_not_in_word
        yellow1 == [letter \in DOMAIN self.yellow_letter_positions |->
                      [i \in Positions |->
                          IF delta.yellow_letter_positions[i] = letter
                          THEN TRUE
                          ELSE self.yellow_letter_positions[letter][i]]]
        green1 == delta.green_letter_positions
        yellow2 == [letter \in DOMAIN yellow1 |->
                      [i \in Positions |->
                          IF green1[i] = letter THEN TRUE ELSE yellow1[letter][i]]]
    IN  [ letters_not_in_word |-> absent,
          green_letter_positions |-> green1,
          yellow_letter_positions |-> yellow2 ]

\* a variant that assigns the round's absent letters instead of uniting them
update_word_information_last_absent(self, delta) ==
    LET absent == delta.letters_not_in_word
        yellow1 == [letter \in DOMAIN self.yellow_letter_positions |->
                      [i \in Positions |->
                          IF delta.yellow_letter_positions[i] = letter
                          THEN TRUE
                          ELSE self.yellow_letter_positions[letter][i]]]
        green1 == [i \in Positions |->
                      IF delta.green_letter_positions[i] # Unknown
                      THEN delta.green_letter_positions[i]
                      ELSE self.green_letter_positions[i]]
        yellow2 == [letter \in DOMAIN yellow1 |->
                      [i \in Positions |->
                          IF green1[i] = letter THEN TRUE ELSE yellow1[letter][i]]]
    IN  [ letters_not_in_word |-> absent,
          green_letter_positions |-> green1,
          yellow_letter_positions |-> yellow2 ]

\* Wordle._update_word_information: the four steps of the merge, in order
update_word_information(self, delta) ==
    LET absent == self.letters_not_in_word \cup delta.letters_not_in_word
        yellow1 == [letter \in DOMAIN self.yellow_letter_positions |->
                      [i \in Positions |->
                          IF delta.yellow_letter_positions[i] = letter
                          THEN TRUE
                          ELSE self.yellow_letter_positions[letter][i]]]
        green1 == [i \in Positions |->
                      IF delta.green_letter_positions[i] # Unknown
                      THEN delta.green_letter_positions[i]
                      ELSE self.green_letter_positions[i]]
        yellow2 == [letter \in DOMAIN yellow1 |->
                      [i \in Positions |->
                          IF green1[i] = letter THEN TRUE ELSE yellow1[letter][i]]]
    IN  [ letters_not_in_word |-> absent,
          green_letter_positions |-> green1,
          yellow_letter_positions |-> yellow2 ]

\* _update_word_information raises KeyError: a letter of the round's yellow
\* list, or of the merged green list, is no key of self._yellow_letter_positions
update_word_information_raises(self, delta) ==
    LET keys == DOMAIN self.yellow_letter_positions
        green1(i) == IF delta.green_letter_positions[i] # Unknown
                     THEN delta.green_letter_positions[i]
                     ELSE self.green_letter_positions[i]
    IN  \/ \E i \in Positions : /\ delta.yellow_letter_positions[i] # Unknown
                                /\ delta.yellow_letter_positions[i] \notin keys
        \/ \E i \in Positions : green1(i) # Unknown /\ green1(i) \notin keys

\* the object as the raised KeyError leaves it: the absent letters united, the
\* loops' assignments made up to the index that raises, the later steps not
update_word_information_interrupted(self, delta) ==
    LET keys == DOMAIN self.yellow_letter_positions
        First(bad) == IF bad = {} THEN WordLen + 1
                      ELSE CHOOSE i \in bad : \A j \in bad : i <= j
        badYellow == {i \in Positions : /\ delta.yellow_letter_positions[i] # Unknown
                                       /\ delta.yellow_letter_positions[i] \notin keys}
        yellow1 == [letter \in keys |->
                      [i \in Positions |->
                          IF i < First(badYellow) /\ delta.yellow_letter_positions[i] = letter
                          THEN TRUE
                          ELSE self.yellow_letter_positions[letter][i]]]
        green1 == IF badYellow # {} THEN self.green_letter_positions
                  ELSE [i \in Positions |->
                          IF delta.green_letter_positions[i] # Unknown
                          THEN delta.green_letter_positions[i]
                          ELSE self.green_letter_positions[i]]
        badGreen == {i \in Positions : green1[i] # Unknown /\ green1[i] \notin keys}
        stop == IF badYellow # {} THEN 1 ELSE First(badGreen)
        yellow2 == [letter \in keys |->
                      [i \in Positions |->
                          IF i < stop /\ green1[i] = letter THEN TRUE
                          ELSE yellow1[letter][i]]]
    IN  [ letters_not_in_word |-> self.letters_not_in_word \cup delta.letters_not_in_word,
          green_letter_positions |-> green1,
          yellow_letter_positions |-> yellow2 ]

\* Wordle.play, "compute most likely words for user": the three nested filters
filter_dictionary(words, self) ==
    LET yellow_letters == yellow_letter_positions_to_set(self.yellow_letter_positions)
    IN
    {word \in words :
        /\ all_letters_in_word(word, yellow_letters)
        /\ all_letters_in_word_positional(word, self.green_letter_positions) = "True"
        /\ does_not_contain(word, self.letters_not_in_word,
                            self.green_letter_positions)}

\* Wordle.play, "present findings to the user": which of the three branches prints
present(words) ==
    IF Cardinality(words) > found_words_threshold THEN "suggestions"
    ELSE IF Cardinality(words) = 0 THEN "none"
    ELSE "words"

(***************************************************************************)
(* The inputs of a session.                                                *)
(***************************************************************************)
Marks == {"X", "Y", "G"}

UpperInfo == [Positions -> Marks]

\* the same marks typed in lower case, and in mixed case
LowerInfo == {LowerStr(m) : m \in {u \in UpperInfo : u[1] = "X" /\ u[WordLen] = "Y"}}

MixedInfo == {[i \in Positions |-> IF i = k THEN "x" ELSE "G"] : k \in Positions}

\* feedback strings the validation must reject: too short, too long (a valid
\* string with one more mark), and one character that is no mark
BadInfo ==
    {[i \in 1..(WordLen - 1) |-> "G"], [i \in 1..(WordLen + 1) |-> "G"]}
        \cup {[i \in Positions |-> IF i = k THEN "Z" ELSE "G"] : k \in Positions}

InfoInputs == UpperInfo \cup LowerInfo \cup MixedInfo \cup BadInfo

\* what the player may type at the word prompt
WordInputs ==
    Words \cup {UpperStr(w) : w \in Words}
        \cup {<<"q">>, <<"Q">>, [i \in 1..(WordLen - 1) |-> "a"],
              [i \in 1..(WordLen + 1) |-> "a"]}

(***************************************************************************)
(* The puzzle's scoring of a guess against the answer: greens first; a     *)
(* further occurrence of a letter is yellow while the answer still has an  *)
(* occurrence of it that no green and no earlier yellow has used.          *)
(***************************************************************************)
Score(guess, ans) ==
    [i \in Positions |->
        IF guess[i] = ans[i] THEN "G"
        ELSE LET supply == Cardinality({k \in Positions :
                                ans[k] = guess[i] /\ guess[k] # ans[k]})
                 used == Cardinality({j \in 1..(i - 1) :
                                guess[j] = guess[i] /\ guess[j] # ans[j]})
             IN  IF used < supply THEN "Y" ELSE "X"]

(***************************************************************************)
(* The session: Wordle.play.                                               *)
(*   pc = "word"      at the prompt for the played word                    *)
(*   pc = "info"      at the prompt for the feedback string                *)
(*   pc = "check"     a feedback string has been read and is validated     *)
(*   pc = "returned"  play has returned (the player typed Q)               *)
(*   pc = "raised"    play has ended with an exception that nothing catches *)
(***************************************************************************)
VARIABLES
    letters_not_in_word,      \* self._letters_not_in_word
    green_letter_positions,   \* self._green_letter_positions
    yellow_letter_positions,  \* self._yellow_letter_positions
    found_words,              \* play's found_words, as a set
    presented,                \* the branch play printed last
    wordPlayed,               \* play's wordPlayed
    information,              \* play's information (the last string typed)
    pc,
    rounds,                   \* the rounds merged so far
    answer,                   \* the puzzle's hidden word (scored sessions only)
    sg_call,                  \* the arguments of a call of the suggestion engine
    sg_stack,                 \* its frames, the innermost last
    sg_status,                \* "idle", "running", "returned" or "raised"
    sg_result,                \* the list the outermost call returned, as a set
    pm_call,                  \* the arguments of a call of a positional matcher
    pm_result,                \* how that call ended
    fd_rounds,                \* a collection of rounds, in the order they are merged
    fd_count,                 \* how many of them a Wordle object has merged
    fd_state                  \* the knowledge state of that object

suggest_vars == <<sg_call, sg_stack, sg_status, sg_result>>

match_vars == <<pm_call, pm_result>>

fold_vars == <<fd_rounds, fd_count, fd_state>>

session_vars == <<letters_not_in_word, green_letter_positions,
                  yellow_letter_positions, found_words, presented, wordPlayed,
                  information, pc, rounds, answer>>

vars == <<session_vars, suggest_vars, match_vars, fold_vars>>

\* what a step of the session leaves alone, and what a step of the engine does
beside_session == <<suggest_vars, match_vars, fold_vars>>

beside_suggest == <<session_vars, match_vars, fold_vars>>

knowledge == <<letters_not_in_word, green_letter_positions, yellow_letter_positions>>

\* the knowledge state as a record
Self ==
    [ letters_not_in_word |-> letters_not_in_word,
      green_letter_positions |-> green_letter_positions,
      yellow_letter_positions |-> yellow_letter_positions ]

SelfNext ==
    [ letters_not_in_word |-> letters_not_in_word',
      green_letter_positions |-> green_letter_positions',
      yellow_letter_positions |-> yellow_letter_positions' ]

InitSession ==
    /\ letters_not_in_word = WordleInit.letters_not_in_word
    /\ green_letter_positions = WordleInit.green_letter_positions
    /\ yellow_letter_positions = WordleInit.yellow_letter_positions
    /\ found_words = {}
    /\ presented = "nothing"
    /\ wordPlayed = <<>>
    /\ information = <<>>
    /\ pc = "word"
    /\ rounds = 0

\* the word prompt: Q returns
Quit(typed) ==
    /\ pc = "word"
    /\ UpperStr(LowerStr(typed)) = <<"Q">>
    /\ pc' = "returned"
    /\ wordPlayed' = LowerStr(typed)
    /\ UNCHANGED <<knowledge, found_words, presented, information, rounds, answer>>

\* the word prompt: a word of any other length than five is asked for again
RejectWord(typed) ==
    /\ pc = "word"
    /\ UpperStr(LowerStr(typed)) # <<"Q">>
    /\ Len(LowerStr(typed)) # WordLen
    /\ wordPlayed' = LowerStr(typed)
    /\ UNCHANGED <<knowledge, found_words, presented, information, pc, rounds, answer>>

\* the word prompt: a five-character word is taken
EnterWord(typed) ==
    /\ pc = "word"
    /\ UpperStr(LowerStr(typed)) # <<"Q">>
    /\ Len(LowerStr(typed)) = WordLen
    /\ rounds < MaxRounds
    /\ wordPlayed' = LowerStr(typed)
    /\ pc' = "info"
    /\ UNCHANGED <<knowledge, found_words, presented, information, rounds, answer>>

\* the feedback prompt: a string is read
ReadInfo(typed) ==
    /\ pc = "info"
    /\ information' = typed
    /\ pc' = "check"
    /\ UNCHANGED <<knowledge, found_words, presented, wordPlayed, rounds, answer>>

\* the string read is of the wrong length or holds a character that is no
\* mark: it is asked for again
RejectInfo ==
    /\ pc = "check"
    /\ Len(information) # WordLen \/ info_has_invalid_chars(information)
    /\ pc' = "info"
    /\ information' = <<>>
    /\ UNCHANGED <<knowledge, found_words, presented, wordPlayed, rounds, answer>>

\* the string read passes: the round is merged, the dictionary filtered, the
\* findings presented, and the loop is back at the word prompt
AcceptInfo ==
    /\ pc = "check"
    /\ Len(information) = WordLen
    /\ ~ info_has_invalid_chars(information)
    /\ ~ update_word_information_raises(Self, process_input(wordPlayed, information))
    /\ LET merged == update_word_information(Self,
                          process_input(wordPlayed, information))
       IN  /\ letters_not_in_word' = merged.letters_not_in_word
           /\ green_letter_positions' = merged.green_letter_positions
           /\ yellow_letter_positions' = merged.yellow_letter_positions
    /\ found_words' = filter_dictionary(THE_DICTIONARY, SelfNext)
    /\ presented' = present(found_words')
    /\ pc' = "word"
    /\ rounds' = rounds + 1
    \* the two locals are dead until the next prompts assign them
    /\ wordPlayed' = <<>>
    /\ information' = <<>>
    /\ UNCHANGED answer

\* the string read passes, and the merge raises KeyError: play ends with it
MergeRaises ==
    /\ pc = "check"
    /\ Len(information) = WordLen
    /\ ~ info_has_invalid_chars(information)
    /\ update_word_information_raises(Self, process_input(wordPlayed, information))
    /\ LET left == update_word_information_interrupted(Self,
                        process_input(wordPlayed, information))
       IN  /\ letters_not_in_word' = left.letters_not_in_word
           /\ green_letter_positions' = left.green_letter_positions
           /\ yellow_letter_positions' = left.yellow_letter_positions
    /\ pc' = "raised"
    /\ UNCHANGED <<found_words, presented, wordPlayed, information, rounds, answer>>

\* no call of the suggestion engine is under way
SuggestIdle ==
    /\ sg_call = <<>>
    /\ sg_stack = <<>>
    /\ sg_status = "idle"
    /\ sg_result = {}

\* no call of a positional matcher is under way
MatchIdle ==
    /\ pm_call = <<>>
    /\ pm_result = "none"

\* no collection of rounds is being merged
FoldIdle ==
    /\ fd_rounds = <<>>
    /\ fd_count = 0
    /\ fd_state = <<>>

Init ==
    /\ InitSession
    /\ answer = <<>>
    /\ SuggestIdle
    /\ MatchIdle
    /\ FoldIdle

Next ==
    \/ \E typed \in WordInputs : Quit(typed) /\ UNCHANGED beside_session
    \/ \E typed \in WordInputs : RejectWord(typed) /\ UNCHANGED beside_session
    \/ \E typed \in WordInputs : EnterWord(typed) /\ UNCHANGED beside_session
    \/ \E typed \in InfoInputs : ReadInfo(typed) /\ UNCHANGED beside_session
    \/ RejectInfo /\ UNCHANGED beside_session
    \/ AcceptInfo /\ UNCHANGED beside_session

Spec == Init /\ [][Next]_vars

(***************************************************************************)
(* The session of a player who also types characters that are no letters:  *)
(* the word prompt checks the length of what is typed and nothing else.    *)
(***************************************************************************)
TypedWords ==
    {<<"a", "a", "b">>, <<"a", "1", "b">>, <<"1", "b", "a">>, <<"Q">>,
     [i \in 1..(WordLen + 1) |-> "1"]}

NextTyped ==
    \/ \E typed \in TypedWords : Quit(typed) /\ UNCHANGED beside_session
    \/ \E typed \in TypedWords : RejectWord(typed) /\ UNCHANGED beside_session
    \/ \E typed \in TypedWords : EnterWord(typed) /\ UNCHANGED beside_session
    \/ \E typed \in InfoInputs : ReadInfo(typed) /\ UNCHANGED beside_session
    \/ RejectInfo /\ UNCHANGED beside_session
    \/ AcceptInfo /\ UNCHANGED beside_session
    \/ MergeRaises /\ UNCHANGED beside_session

SpecTyped == Init /\ [][NextTyped]_vars

(***************************************************************************)
(* The scored session: the player types the feedback the puzzle gives for  *)
(* the played word against the hidden answer.                              *)
(***************************************************************************)
ReadScore ==
    /\ pc = "info"
    /\ information' = Score(wordPlayed, answer)
    /\ pc' = "check"
    /\ UNCHANGED <<knowledge, found_words, presented, wordPlayed, rounds, answer>>

InitScored ==
    /\ InitSession
    /\ answer \in Words
    /\ SuggestIdle
    /\ MatchIdle
    /\ FoldIdle

NextScored ==
    \/ \E typed \in WordInputs : Quit(typed) /\ UNCHANGED beside_session
    \/ \E typed \in WordInputs : RejectWord(typed) /\ UNCHANGED beside_session
    \/ \E typed \in WordInputs : EnterWord(typed) /\ UNCHANGED beside_session
    \/ ReadScore /\ UNCHANGED beside_session
    \/ AcceptInfo /\ UNCHANGED beside_session

SpecScored == InitScored /\ [][NextScored]_vars

(***************************************************************************)
(* The suggestion engine: suggest_words_with_max_information.              *)
(*                                                                         *)
(* positions_of_yellow_letters is None or a dict; it is a record here,     *)
(* supplied = FALSE for None.                                              *)
(***************************************************************************)
NotSupplied == [supplied |-> FALSE, map |-> <<>>]

Supplied(ylp) == [supplied |-> TRUE, map |-> ylp]

\* Python's truth value of the argument: None and the empty dict are false
Truthy(yellow) == yellow.supplied /\ DOMAIN yellow.map # {}

\* a variant without the requirement that every key letter occurs in the word
filter_with_yellow_letters_positions_only(word, ylp) ==
    \A yellow_letter \in DOMAIN ylp :
        ~ \E idx \in DOMAIN word :
            word[idx] = yellow_letter /\ ylp[yellow_letter][idx]

\* _filter_with_yellow_letters
filter_with_yellow_letters(word, ylp) ==
    \A yellow_letter \in DOMAIN ylp :
        /\ ~ \E idx \in DOMAIN word :
                word[idx] = yellow_letter /\ ylp[yellow_letter][idx]
        /\ yellow_letter \in LettersOf(word)

unknown_letter_indices(green) == {idx \in DOMAIN green : green[idx] = Unknown}

\* the places <<k, idx>> of the letters of unknown_letters, which lists them
\* word by word and, within a word, by index
UnknownPlaces(word_list, green) ==
    {place \in (DOMAIN word_list) \X Positions :
        /\ place[2] \in DOMAIN word_list[place[1]]
        /\ place[2] \in unknown_letter_indices(green)}

\* Counter(unknown_letters).most_common(): the letters by falling count, the
\* letters of equal count in the order of their first occurrence
most_common_letters(word_list, green) ==
    LET places == UnknownPlaces(word_list, green)
        At(place) == word_list[place[1]][place[2]]
        Order(place) == (place[1] - 1) * (WordLen + 1) + place[2]
        letters == {At(place) : place \in places}
        Count(letter) == Cardinality({place \in places : At(place) = letter})
        First(letter) ==
            CHOOSE n \in {Order(place) : place \in {q \in places : At(q) = letter}} :
                \A place \in {q \in places : At(q) = letter} : n <= Order(place)
        Before(m, letter) ==
            \/ Count(m) > Count(letter)
            \/ Count(m) = Count(letter) /\ First(m) < First(letter)
        Rank(letter) == 1 + Cardinality({m \in letters : Before(m, letter)})
    IN  [r \in 1..Cardinality(letters) |->
            CHOOSE letter \in letters : Rank(letter) = r]

\* one filtering attempt over the dictionary (lines 241-257 and 276-292)
attempt(universe, yellow, top_n_letters) ==
    IF Truthy(yellow)
    THEN {word \in universe : filter_with_yellow_letters(word, yellow.map)}
    ELSE {word \in universe : all_letters_in_word(word, LettersOf(top_n_letters))}

\* a frame of the function on entry
Frame(num_search_letters, yellow) ==
    [ num_search_letters |-> num_search_letters,
      positions_of_yellow_letters |-> yellow,
      most_common_letters |-> <<>>,
      top_n_letters |-> <<>>,
      offset |-> 0,
      found_words |-> {},
      at |-> "start" ]

Depth == Len(sg_stack)

Top == sg_stack[Depth]

SetTop(frame) ==
    /\ sg_stack' = [sg_stack EXCEPT ![Depth] = frame]
    /\ UNCHANGED <<sg_call, sg_status, sg_result>>

\* a recursive call: a new frame, or RecursionError at the interpreter's limit
Call(waiting, num_search_letters, yellow) ==
    IF Depth < MaxDepth
    THEN /\ sg_stack' = Append([sg_stack EXCEPT ![Depth].at = waiting],
                               Frame(num_search_letters, yellow))
         /\ UNCHANGED <<sg_call, sg_status, sg_result>>
    ELSE /\ sg_status' = "raised"
         /\ UNCHANGED <<sg_call, sg_stack, sg_result>>

Running == sg_status = "running" /\ Depth > 0

\* lines 217-257: the most frequent letters and the first attempt
Search ==
    /\ Running
    /\ Top.at = "start"
    /\ LET most_common == most_common_letters(sg_call.word_list,
                                               sg_call.green_letter_positions)
           n == Min(Top.num_search_letters, Len(most_common))
           top_n_letters == SubSeq(most_common, 1, n)
           found == attempt(sg_call.universe, Top.positions_of_yellow_letters,
                            top_n_letters)
       IN  SetTop([Top EXCEPT !.most_common_letters = most_common,
                              !.top_n_letters = top_n_letters,
                              !.found_words = found,
                              !.offset = 1,
                              !.at = IF found = {} THEN "backoff" ELSE "return"])

\* lines 268-299: one turn of the backoff loop
Backoff ==
    /\ Running
    /\ Top.at = "backoff"
    /\ Top.num_search_letters + Top.offset <= Len(Top.most_common_letters)
    /\ LET top_n_letters ==
               Append(SubSeq(Top.top_n_letters, 1, Len(Top.top_n_letters) - 1),
                      Top.most_common_letters[Top.num_search_letters + Top.offset])
           results == attempt(sg_call.universe, Top.positions_of_yellow_letters,
                              top_n_letters)
       IN  IF results = {}
           THEN SetTop([Top EXCEPT !.top_n_letters = top_n_letters,
                                   !.offset = Top.offset + 1])
           ELSE SetTop([Top EXCEPT !.top_n_letters = top_n_letters,
                                   !.found_words = results,
                                   !.at = "smaller"])

\* line 268: the loop ends with the letters exhausted
BackoffExhausted ==
    /\ Running
    /\ Top.at = "backoff"
    /\ Top.num_search_letters + Top.offset > Len(Top.most_common_letters)
    /\ SetTop([Top EXCEPT !.at = "smaller"])

\* lines 305-311: the call with one letter less
CallSmaller ==
    /\ Running
    /\ Top.at = "smaller"
    /\ IF Top.found_words = {} /\ Top.num_search_letters - 1 > 0
       THEN Call("await_smaller", Top.num_search_letters - 1,
                 Top.positions_of_yellow_letters)
       ELSE SetTop([Top EXCEPT !.at = "last_resort"])

\* lines 317-323: the call without the yellow letter positions
CallLastResort ==
    /\ Running
    /\ Top.at = "last_resort"
    /\ IF Top.found_words = {}
       THEN Call("await_last_resort", Top.num_search_letters, NotSupplied)
       ELSE SetTop([Top EXCEPT !.at = "return"])

\* line 325 of a recursive call: the caller takes the value as its found_words
ReturnToCaller ==
    /\ Running
    /\ Top.at = "return"
    /\ Depth > 1
    /\ LET caller == sg_stack[Depth - 1]
           resumed == [caller EXCEPT
                          !.found_words = Top.found_words,
                          !.at = IF caller.at = "await_smaller"
                                 THEN "last_resort" ELSE "return"]
       IN  sg_stack' = Append(SubSeq(sg_stack, 1, Depth - 2), resumed)
    /\ UNCHANGED <<sg_call, sg_status, sg_result>>

\* line 325 of the outermost call
Return ==
    /\ Running
    /\ Top.at = "return"
    /\ Depth = 1
    /\ sg_result' = Top.found_words
    /\ sg_status' = "returned"
    /\ sg_stack' = <<>>
    /\ UNCHANGED sg_call

(***************************************************************************)
(* The calls the model makes.                                              *)
(***************************************************************************)
Word(x, y, z) == [i \in Positions |-> IF i = 1 THEN x ELSE IF i = 2 THEN y ELSE z]

\* the words of the candidate lists
CandidatePool ==
    {Word("a", "a", "b"), Word("a", "b", "c"), Word("c", "b", "a"), Word("b", "b", "b")}

CandidateLists == UNION {[1..n -> CandidatePool] : n \in 0..MaxCandidates}

\* the dictionaries get_dictionary may read: the non-empty sets of these words
UniversePool == {Word("a", "a", "a"), Word("a", "c", "a"), Word("b", "b", "c")}

Universes == (SUBSET UniversePool) \ {{}}

GreenInputs ==
    {[i \in Positions |-> Unknown], Word("a", Unknown, Unknown), Word("a", "b", "c")}

NoPosition == [i \in Positions |-> FALSE]

YellowInputs ==
    {NotSupplied,
     Supplied(<<>>),
     Supplied(WordleInit.yellow_letter_positions),
     Supplied([letter \in {"b"} |-> NoPosition]),
     Supplied([letter \in {"a"} |-> [i \in Positions |-> i = 1]])}

InitSuggest ==
    /\ InitSession
    /\ answer = <<>>
    /\ \E word_list \in CandidateLists, green \in GreenInputs, universe \in Universes :
          sg_call = [word_list |-> word_list, green_letter_positions |-> green,
                     universe |-> universe]
    /\ \E n \in 1..WordLen, yellow \in YellowInputs : sg_stack = <<Frame(n, yellow)>>
    /\ sg_status = "running"
    /\ sg_result = {}
    /\ MatchIdle
    /\ FoldIdle

NextSuggest ==
    \/ Search /\ UNCHANGED beside_suggest
    \/ Backoff /\ UNCHANGED beside_suggest
    \/ BackoffExhausted /\ UNCHANGED beside_suggest
    \/ CallSmaller /\ UNCHANGED beside_suggest
    \/ CallLastResort /\ UNCHANGED beside_suggest
    \/ ReturnToCaller /\ UNCHANGED beside_suggest
    \/ Return /\ UNCHANGED beside_suggest

SpecSuggest == InitSuggest /\ [][NextSuggest]_vars

(***************************************************************************)
(* The function called as play calls it (lines 527-532): with              *)
(* num_search_letters the word length and the object's map, which has      *)
(* every letter of the alphabet as a key; and, beside it, the call with    *)
(* one letter and no map.                                                  *)
(***************************************************************************)
SessionMaps ==
    {Supplied(WordleInit.yellow_letter_positions),
     Supplied([WordleInit.yellow_letter_positions EXCEPT !["a"][1] = TRUE]),
     Supplied([WordleInit.yellow_letter_positions EXCEPT !["b"][WordLen] = TRUE])}

InitSuggestAsSession ==
    /\ InitSession
    /\ answer = <<>>
    /\ \E word_list \in CandidateLists, green \in GreenInputs, universe \in Universes :
          sg_call = [word_list |-> word_list, green_letter_positions |-> green,
                     universe |-> universe]
    /\ \/ \E yellow \in SessionMaps : sg_stack = <<Frame(WordLen, yellow)>>
       \/ sg_stack = <<Frame(1, NotSupplied)>>
    /\ sg_status = "running"
    /\ sg_result = {}
    /\ MatchIdle
    /\ FoldIdle

SpecSuggestAsSession == InitSuggestAsSession /\ [][NextSuggest]_vars

(***************************************************************************)
(* The positional matchers called on their own, with words and prototypes  *)
(* of every length up to one more than the word length.                    *)
(***************************************************************************)
MatchWords == UNION {[1..n -> InputLetters] : n \in 0..(WordLen + 1)}

MatchPrototypes ==
    UNION {[1..n -> InputLetters \cup {Unknown}] : n \in 0..(WordLen + 1)}

\* all_letters_in_word_positional(word, letters) of wordle.py
MatchPositional ==
    /\ pm_call # <<>>
    /\ pm_result = "none"
    /\ pm_result' = all_letters_in_word_positional(pm_call.word, pm_call.letters)
    /\ UNCHANGED pm_call

\* allLettersInWordPositional(letters, word) of wordle_helper.py
MatchPositionalHelper ==
    /\ pm_call # <<>>
    /\ pm_result = "none"
    /\ pm_result' = allLettersInWordPositional(pm_call.letters, pm_call.word)
    /\ UNCHANGED pm_call

InitMatch ==
    /\ InitSession
    /\ answer = <<>>
    /\ SuggestIdle
    /\ \E word \in MatchWords, letters \in MatchPrototypes :
          pm_call = [word |-> word, letters |-> letters]
    /\ pm_result = "none"
    /\ FoldIdle

NextMatch ==
    \/ MatchPositional /\ UNCHANGED <<session_vars, suggest_vars, fold_vars>>
    \/ MatchPositionalHelper /\ UNCHANGED <<session_vars, suggest_vars, fold_vars>>

SpecMatch == InitMatch /\ [][NextMatch]_vars

(***************************************************************************)
(* A collection of rounds merged into a fresh Wordle object, one round at  *)
(* a time, as play merges them (lines 485-487).                            *)
(***************************************************************************)
\* the played words of the collections: they differ at every position
FoldWords == {Word("a", "a", "b"), Word("b", "b", "a")}

FoldRoundInputs == [wordPlayed : FoldWords, information : UpperInfo]

\* play, lines 485-487, on a knowledge state given as a record
merge_round(self, round) ==
    update_word_information(self, process_input(round.wordPlayed, round.information))

FoldRound ==
    /\ fd_count < Len(fd_rounds)
    /\ fd_state' = merge_round(fd_state, fd_rounds[fd_count + 1])
    /\ fd_count' = fd_count + 1
    /\ UNCHANGED fd_rounds

InitFold ==
    /\ InitSession
    /\ answer = <<>>
    /\ SuggestIdle
    /\ MatchIdle
    /\ fd_rounds \in [1..MaxRounds -> FoldRoundInputs]
    /\ fd_count = 0
    /\ fd_state = WordleInit

NextFold == FoldRound /\ UNCHANGED <<session_vars, suggest_vars, match_vars>>

SpecFold == InitFold /\ [][NextFold]_vars

(***************************************************************************)
(* Shorthands of the properties.                                           *)
(***************************************************************************)
\* the round being validated, and its marks in upper case
RoundMarks == UpperStr(information)

\* a step that merges a round
Merging == pc = "check" /\ pc' = "word"

\* the session as __init__ or a merge leaves it, before the next word is read
AtRoundStart == pc = "word" /\ wordPlayed = <<>>

\* a feedback string as the interface defines it
WellFormedInfo(s) ==
    /\ Len(s) = WordLen
    /\ \A i \in DOMAIN s : s[i] \in {"X", "Y", "G", "x", "y", "g"}

(***************************************************************************)
(* C1: after any sequence of rounds, a position whose correctPositions     *)
(* slot holds letter c is not recorded in excludedPositions[c].            *)
(***************************************************************************)
C1_ConfirmedNotExcluded ==
    \A i \in Positions :
        green_letter_positions[i] # Unknown
            => ~ yellow_letter_positions[green_letter_positions[i]][i]

(***************************************************************************)
(* C2: no word that survives the filter of a round places a letter at an   *)
(* unconfirmed position recorded as excluded for that letter.              *)
(***************************************************************************)
C2_NoSurvivorAtExcludedPosition ==
    \A word \in filter_dictionary(Words, Self) :
        \A i \in Positions :
            green_letter_positions[i] = Unknown
                => ~ yellow_letter_positions[word[i]][i]

(***************************************************************************)
(* C3: when every round is scored against the answer by the puzzle's       *)
(* rules, the filter keeps the answer in every word set that contains it.  *)
(***************************************************************************)
C3_AnswerSurvives ==
    \A W \in SUBSET Words :
        answer \in W => answer \in filter_dictionary(W, Self)

(***************************************************************************)
(* C4: from the empty knowledge state, the round that scores a word        *)
(* against itself leaves that word in filter({w}, state).                  *)
(***************************************************************************)
C4_SelfScoredWordSurvives ==
    [][ (Merging /\ rounds = 0 /\ information = Score(wordPlayed, wordPlayed))
            => filter_dictionary({wordPlayed}, SelfNext) = {wordPlayed} ]_vars

C4_Witness ==
    /\ rounds = 1
    /\ pc = "word"
    /\ green_letter_positions \in Words
    /\ letters_not_in_word = {}
    /\ found_words = {green_letter_positions}

(***************************************************************************)
(* Knowledge states compared: S2 holds every absent letter, every excluded *)
(* (letter, position) pair and every confirmed (position, letter) pair of  *)
(* S1.                                                                     *)
(***************************************************************************)
Contains(S2, S1) ==
    /\ S1.letters_not_in_word \subseteq S2.letters_not_in_word
    /\ \A letter \in ascii_lowercase : \A i \in Positions :
          S1.yellow_letter_positions[letter][i]
              => S2.yellow_letter_positions[letter][i]
    /\ \A i \in Positions :
          S1.green_letter_positions[i] # Unknown
              => S2.green_letter_positions[i] = S1.green_letter_positions[i]

\* S2 confirms, at a slot S1 leaves unknown, a letter S1 records as absent
ConfirmsAbsentLetter(S2, S1) ==
    \E i \in Positions :
        /\ S1.green_letter_positions[i] = Unknown
        /\ S2.green_letter_positions[i] \in S1.letters_not_in_word

\* a knowledge state over the letters of the inputs
KnowledgeState(absent, green, yellow) ==
    [ letters_not_in_word |-> absent,
      green_letter_positions |-> green,
      yellow_letter_positions |->
          [letter \in ascii_lowercase |->
              IF letter \in InputLetters THEN yellow[letter]
              ELSE [i \in Positions |-> FALSE]] ]

\* P(S2) for every knowledge state S2 over the letters of the inputs that
\* contains the current one
ForEveryLargerState(P(_)) ==
    \A absent \in SUBSET InputLetters :
        letters_not_in_word \subseteq absent =>
    \A green \in Prototypes :
        (\A i \in Positions : green_letter_positions[i] # Unknown
                                => green[i] = green_letter_positions[i]) =>
    \A yellow \in [InputLetters -> [Positions -> BOOLEAN]] :
        (\A letter \in InputLetters : \A i \in Positions :
            yellow_letter_positions[letter][i] => yellow[letter][i]) =>
    P(KnowledgeState(absent, green, yellow))

(***************************************************************************)
(* C5, as claimed: whenever the state after a round contains the state     *)
(* before it, no word passes the filter after the round that did not pass  *)
(* it before (the claim's S1 and S2 taken from one session).               *)
(***************************************************************************)
C5_MonotonicNarrowing ==
    [][ (Merging /\ Contains(SelfNext, Self))
            => \A W \in {Words, THE_DICTIONARY} :
                  filter_dictionary(W, SelfNext) \subseteq filter_dictionary(W, Self)
      ]_vars

(***************************************************************************)
(* C5, amended: for the knowledge state S1 of a session and every state S2 *)
(* that contains it, filter(W, S2) is a subset of filter(W, S1) provided   *)
(* S2 confirms, at no slot that S1 leaves unknown, a letter of S1's        *)
(* absentLetters.  (The filter decides word by word, so the inclusion for  *)
(* the set of all words gives it for every W.  The knowledge state changes *)
(* only in a merge, so S1 is taken where a merge leaves the session.)      *)
(***************************************************************************)
C5_NarrowsUnlessAbsentLetterConfirmed ==
    AtRoundStart =>
        LET survivors == filter_dictionary(Words, Self)
            Narrows(S2) ==
                ~ ConfirmsAbsentLetter(S2, Self)
                    => filter_dictionary(Words, S2) \subseteq survivors
        IN  ForEveryLargerState(Narrows)

C5_Witness ==
    /\ pc = "word"
    /\ rounds = 2
    /\ letters_not_in_word # {}
    /\ \E i \in Positions : green_letter_positions[i] = Unknown
    /\ found_words # {}
    /\ found_words # THE_DICTIONARY

(***************************************************************************)
(* C7, as claimed: once a slot of correctPositions holds a letter it holds *)
(* the same letter in every later state.                                   *)
(***************************************************************************)
C7_SlotNeverChanges ==
    [][ \A i \in Positions :
            green_letter_positions[i] # Unknown
                => green_letter_positions'[i] = green_letter_positions[i] ]_vars

(***************************************************************************)
(* C7, amended: once a slot of correctPositions holds a letter it is never *)
(* reset to unknown, and it changes only in a round that marks that        *)
(* position G, to the letter played there.                                 *)
(***************************************************************************)
C7_SlotNeverUnset ==
    [][ \A i \in Positions :
            green_letter_positions[i] # Unknown
                => /\ green_letter_positions'[i] # Unknown
                   /\ green_letter_positions'[i] # green_letter_positions[i]
                        => /\ Merging
                           /\ RoundMarks[i] = "G"
                           /\ green_letter_positions'[i] = wordPlayed[i] ]_vars

C7_Witness ==
    /\ rounds = 2
    /\ pc = "word"
    /\ \E i \in Positions :
          /\ green_letter_positions[i] # Unknown
          /\ \A letter \in InputLetters : yellow_letter_positions[letter][i]

(***************************************************************************)
(* C9: the delta of an accepted round holds, for every position i, the     *)
(* played letter as absent (X), as excluded at i (Y) or as confirmed at i  *)
(* (G) and nothing else, and the merge adds exactly these facts.           *)
(***************************************************************************)
C9_DeltaAndMerge ==
    [][ Merging =>
          LET delta == process_input(wordPlayed, information)
          IN  /\ delta.letters_not_in_word =
                    {wordPlayed[i] : i \in {j \in Positions : RoundMarks[j] = "X"}}
              /\ \A i \in Positions :
                    /\ delta.yellow_letter_positions[i] =
                          IF RoundMarks[i] = "Y" THEN wordPlayed[i] ELSE Unknown
                    /\ delta.green_letter_positions[i] =
                          IF RoundMarks[i] = "G" THEN wordPlayed[i] ELSE Unknown
              /\ letters_not_in_word' =
                    letters_not_in_word \cup delta.letters_not_in_word
              /\ \A letter \in ascii_lowercase : \A i \in Positions :
                    yellow_letter_positions'[letter][i] =
                        (yellow_letter_positions[letter][i]
                            \/ (RoundMarks[i] = "Y" /\ wordPlayed[i] = letter))
              /\ \A i \in Positions :
                    green_letter_positions'[i] =
                        IF RoundMarks[i] = "G" THEN wordPlayed[i]
                        ELSE green_letter_positions[i] ]_vars

(***************************************************************************)
(* C10: a feedback string is accepted iff it has exactly WordLen           *)
(* characters, each X, Y or G in either case; an accepted string is        *)
(* processed as its upper-case form; any other string is rejected, is not  *)
(* truncated, and leaves the knowledge state unchanged.                    *)
(***************************************************************************)
C10_FeedbackValidation ==
    [][ pc = "check" =>
          IF WellFormedInfo(information)
          THEN /\ pc' = "word"
               /\ rounds' = rounds + 1
               /\ SelfNext = update_word_information(Self,
                                 process_input(wordPlayed, RoundMarks))
          ELSE /\ pc' = "info"
               /\ UNCHANGED <<knowledge, found_words, rounds>> ]_vars

C10_Witness ==
    /\ pc = "check"
    /\ rounds = 1
    /\ Len(information) = WordLen + 1
    /\ WellFormedInfo(SubSeq(information, 1, WordLen))

(***************************************************************************)
(* C6: for a non-empty universe a call of suggest finishes, never raises,  *)
(* and returns a non-empty list; every recursive call has a strictly       *)
(* smaller minDistinctLetters than its caller, or drops the caller's       *)
(* excludedPositions.                                                      *)
(***************************************************************************)
C6_SuggestTerminates ==
    /\ sg_status # "raised"
    /\ sg_status = "returned" => sg_result # {}
    /\ \A k \in 2..Depth :
          LET caller == sg_stack[k - 1]
              callee == sg_stack[k]
          IN  \/ callee.num_search_letters < caller.num_search_letters
              \/ /\ caller.positions_of_yellow_letters.supplied
                 /\ ~ callee.positions_of_yellow_letters.supplied

(***************************************************************************)
(* C8: the words a filtering attempt (the first or a backoff attempt)      *)
(* finds are words of the universe that contain every selected letter,     *)
(* and, when excludedPositions is supplied, none of them places a letter   *)
(* at one of that letter's excluded positions.                             *)
(***************************************************************************)
C8_AttemptKeepsSelectedLetters ==
    [][ ( /\ Running
          /\ Top.at \in {"start", "backoff"}
          /\ Len(sg_stack') = Depth
          /\ sg_stack'[Depth].found_words # {} )
        => LET frame == sg_stack'[Depth]
               yellow == frame.positions_of_yellow_letters
           IN  \A word \in frame.found_words :
                  /\ word \in sg_call.universe
                  /\ \A letter \in LettersOf(frame.top_n_letters) :
                        letter \in LettersOf(word)
                  /\ yellow.supplied =>
                        \A key \in DOMAIN yellow.map : \A idx \in DOMAIN word :
                            ~ (word[idx] = key /\ yellow.map[key][idx]) ]_vars

(***************************************************************************)
(* C11: a positional match of a word against a prototype of another length *)
(* ends in an error; neither matcher returns a boolean for such a pair.    *)
(***************************************************************************)
C11_LengthMismatchIsAnError ==
    (pm_result # "none" /\ Len(pm_call.word) # Len(pm_call.letters))
        => pm_result \notin {"True", "False"}

\* the rounds of a sequence merged, in its order, into the empty state
RECURSIVE MergedInOrder(_)
MergedInOrder(collection) ==
    IF collection = <<>> THEN WordleInit
    ELSE merge_round(MergedInOrder(SubSeq(collection, 1, Len(collection) - 1)),
                     collection[Len(collection)])

\* the collection in another order
Reordered(order) == [k \in DOMAIN fd_rounds |-> fd_rounds[order[k]]]

\* two rounds of the collection confirm different letters at slot i
ConfirmedTwice(i) ==
    \E j, k \in DOMAIN fd_rounds :
        /\ fd_rounds[j].information[i] = "G"
        /\ fd_rounds[k].information[i] = "G"
        /\ fd_rounds[j].wordPlayed[i] # fd_rounds[k].wordPlayed[i]

(***************************************************************************)
(* C12: a collection of rounds merged into the empty state in any order    *)
(* gives the same absentLetters and the same excludedPositions, and the    *)
(* same correctPositions except at a slot where two of the rounds confirm  *)
(* different letters.                                                      *)
(***************************************************************************)
C12_OrderMattersOnlyForContradictions ==
    (fd_rounds # <<>> /\ fd_count = Len(fd_rounds)) =>
        \A order \in Permutations(DOMAIN fd_rounds) :
            LET other == MergedInOrder(Reordered(order))
            IN  /\ other.letters_not_in_word = fd_state.letters_not_in_word
                /\ other.yellow_letter_positions = fd_state.yellow_letter_positions
                /\ \A i \in Positions :
                      other.green_letter_positions[i] # fd_state.green_letter_positions[i]
                          => ConfirmedTwice(i)

C12_Witness ==
    /\ fd_rounds # <<>>
    /\ fd_count = Len(fd_rounds)
    /\ \E i \in Positions : ConfirmedTwice(i)
    /\ \E order \in Permutations(DOMAIN fd_rounds) :
          MergedInOrder(Reordered(order)).green_letter_positions
              # fd_state.green_letter_positions
    /\ fd_state.letters_not_in_word # {}
    /\ \E i \in Positions : fd_state.green_letter_positions[i] = Unknown

(***************************************************************************)
(* C13: a word that matches every confirmed slot is rejected by the        *)
(* absence rule iff it holds a letter of absentLetters at a position whose *)
(* slot is still unknown; a letter of absentLetters at a confirmed slot    *)
(* does not cause rejection.                                               *)
(***************************************************************************)
C13_AbsenceOnlyAtUnconfirmed ==
    \A word \in Words :
        all_letters_in_word_positional(word, green_letter_positions) = "True"
            => ( ~ does_not_contain(word, letters_not_in_word, green_letter_positions)
                   <=> \E i \in Positions :
                          /\ green_letter_positions[i] = Unknown
                          /\ word[i] \in letters_not_in_word )

C13_Witness ==
    /\ pc = "word"
    /\ rounds > 0
    /\ \E i \in Positions :
          /\ green_letter_positions[i] \in letters_not_in_word
          /\ \E word \in found_words : word[i] = green_letter_positions[i]
    /\ \E word \in Words :
          /\ all_letters_in_word_positional(word, green_letter_positions) = "True"
          /\ ~ does_not_contain(word, letters_not_in_word, green_letter_positions)

(***************************************************************************)
(* C14: as soon as the filtered candidate set is exactly the confirmed     *)
(* word the session has ended (SOLVED) and asks for no further round; it   *)
(* ends otherwise only when the player quits.                              *)
(***************************************************************************)
C14_SolvedIsTerminal ==
    /\ (rounds > 0 /\ green_letter_positions \in Words
            /\ found_words = {green_letter_positions})
          => pc \notin {"word", "info", "check"}
    /\ pc = "returned" => UpperStr(wordPlayed) = <<"Q">>

(***************************************************************************)
(* C15: merging a round never fails on a missing key: for a played word    *)
(* and a feedback string that have passed the prompts' validation, every   *)
(* yellow-marked and every confirmed letter is a key of the map.           *)
(***************************************************************************)
C15_MergeIndexesKnownLetters ==
    /\ pc # "raised"
    /\ (pc = "check" /\ Len(information) = WordLen
            /\ ~ info_has_invalid_chars(information))
          => \A i \in Positions :
                (RoundMarks[i] \in {"Y", "G"} /\ wordPlayed[i] # Unknown)
                    => wordPlayed[i] \in DOMAIN yellow_letter_positions

\* the map has a key for every letter of an alphabet larger than a word
FullKeyMap(yellow) ==
    /\ yellow.supplied
    /\ DOMAIN yellow.map = ascii_lowercase
    /\ Cardinality(ascii_lowercase) > WordLen

\* the value of the function called with num_search_letters = 1 and without
\* positions_of_yellow_letters: the first attempt's words, else the words of
\* the first backoff attempt that finds any, else the last-resort call
\* repeats the same call until RecursionError
suggest_one_letter(universe, word_list, green) ==
    LET most_common == most_common_letters(word_list, green)
        Found(k) == attempt(universe, NotSupplied, <<most_common[k]>>)
        first == attempt(universe, NotSupplied,
                         SubSeq(most_common, 1, Min(1, Len(most_common))))
        hits == {k \in 2..Len(most_common) : Found(k) # {}}
    IN  IF first # {} THEN first
        ELSE IF hits # {}
             THEN Found(CHOOSE k \in hits : \A j \in hits : k <= j)
             ELSE "RecursionError"

(***************************************************************************)
(* C16: called as the session calls it, with num_search_letters = WordLen  *)
(* and a map that has every letter of the alphabet as a key, the function  *)
(* finds no word in any attempt that uses the map, and what it returns (or *)
(* the error it ends with) is that of the call with one letter and no map. *)
(* The call with one letter and no map ends as suggest_one_letter says.    *)
(***************************************************************************)
C16_FullMapSuggestsAsOneLetter ==
    [][ Running =>
          LET outer == sg_stack[1]
              expected == suggest_one_letter(sg_call.universe, sg_call.word_list,
                                             sg_call.green_letter_positions)
              asSession == /\ outer.num_search_letters = WordLen
                           /\ FullKeyMap(outer.positions_of_yellow_letters)
              oneLetter == /\ outer.num_search_letters = 1
                           /\ ~ outer.positions_of_yellow_letters.supplied
          IN  /\ (asSession \/ oneLetter) =>
                    /\ sg_status' = "returned" => sg_result' = expected
                    /\ sg_status' = "raised" => expected = "RecursionError"
              /\ ( /\ asSession
                   /\ FullKeyMap(Top.positions_of_yellow_letters)
                   /\ Top.at \in {"start", "backoff"}
                   /\ Len(sg_stack') = Depth )
                    => sg_stack'[Depth].found_words = {} ]_vars

C16_Witness ==
    /\ Running
    /\ sg_stack[1].num_search_letters = WordLen
    /\ FullKeyMap(sg_stack[1].positions_of_yellow_letters)
    /\ \E letter \in ascii_lowercase, i \in Positions :
          sg_stack[1].positions_of_yellow_letters.map[letter][i]
    /\ Depth = WordLen + 1
    /\ ~ Top.positions_of_yellow_letters.supplied
    /\ Top.at = "return"
    /\ Top.found_words # {}
    /\ Top.found_words # sg_call.universe

=============================================================================
